---- MODULE Spec2Model ----
(***************************************************************************)
(* Model of SqlCodeGenerator (src/rust/src/sql_code_generator.rs) and of   *)
(* the bridge that exposes it (src/rust/src/lib.rs).                       *)
(*                                                                         *)
(* One session (model with its KV cache, TokenOutputStream, Logits-        *)
(* Processor) is shared by the callers of generate.  generate is cut into  *)
(* steps at the places where it touches the session, so that the position  *)
(* of every caller inside it is part of the state.                         *)
(*                                                                         *)
(* The collaborators the code calls (the qwen2 model, the tokenizer, the   *)
(* chat template, the sampler) are modelled by what they do to the values  *)
(* the code hands them; each operation that returns a Result can also      *)
(* fail, as a separate action.                                             *)
(***************************************************************************)
EXTENDS Integers, Sequences, FiniteSets, TLC

(***************************************************************************)
(* Program constants.                                                      *)
(***************************************************************************)
\* for index in 0..256
MaxSteps == 256
\* repeat_last_n: 64
RepeatLastN == 64
\* repeat_penalty: 1.10, kept as the fraction PenaltyNum / PenaltyDen
PenaltyNum == 11
PenaltyDen == 10
\* LogitsProcessor::new(299792458, Some(0.0), None)
Seed == 299792458
\* the temperature Some(0.0)
Temperature == 0

(***************************************************************************)
(* Bounds of the model.                                                    *)
(***************************************************************************)
\* the model weights are one of NumWeights functions from context to logits
NumWeights == 3
\* a session whose cache was left holding more than MaxStale positions is
\* not called again
MaxStale == 20
\* when two callers share the session, forward passes are explored while the
\* cache holds fewer than MaxShared positions, each caller making one call
MaxShared == 24

(***************************************************************************)
(* Token ids.  A and S are one-byte pieces (a letter, a blank), H and L    *)
(* are the two bytes of one two-byte character, the last three are the     *)
(* special tokens of the ChatML vocabulary.                                *)
(***************************************************************************)
TokA == 0
TokS == 1
TokH == 2
TokL == 3
ImStart == 4
ImEnd == 5
EndOfText == 6

Vocab == 0..6
SpecialIds == {ImStart, ImEnd, EndOfText}

None == [kind |-> "None"]
Some(v) == [kind |-> "Some", val |-> v]

(***************************************************************************)
(* Text is a sequence of characters: "a" (alphanumeric, one byte), "_"     *)
(* (a blank, one byte), "E" (alphanumeric, two bytes) and "X" (U+FFFD, the *)
(* replacement character of a lossy decode, three bytes).                  *)
(***************************************************************************)
ByteLen(ch) == CASE ch = "E" -> 2 [] ch = "X" -> 3 [] OTHER -> 1

IsAlphanumeric(ch) == ch \in {"a", "E"}

RECURSIVE StrLen(_)
\* str::len: the length in bytes (summed by halves, to keep the evaluation
\* shallow on long texts)
StrLen(text) ==
    IF text = <<>> THEN 0
    ELSE IF Len(text) = 1 THEN ByteLen(text[1])
    ELSE StrLen(SubSeq(text, 1, Len(text) \div 2))
         + StrLen(SubSeq(text, Len(text) \div 2 + 1, Len(text)))

\* str::split_at(n).1: what follows byte offset n ("panic" when n is not a
\* character boundary of the text)
SplitAt(text, n) ==
    LET cuts == {k \in 0..Len(text) : k <= n /\ StrLen(SubSeq(text, 1, k)) = n}
    IN  IF cuts = {} THEN <<"panic">>
        ELSE SubSeq(text, (CHOOSE k \in cuts : TRUE) + 1, Len(text))

\* the bytes a token id stands for; decode(.., skip_special_tokens = true)
\* drops the special tokens
TokBytes(t) ==
    CASE t = TokA -> <<"a">>
      [] t = TokS -> <<"_">>
      [] t = TokH -> <<"h">>
      [] t = TokL -> <<"l">>
      [] OTHER -> <<>>

RECURSIVE Bytes(_)
Bytes(ids) ==
    IF ids = <<>> THEN <<>>
    ELSE IF Len(ids) = 1 THEN TokBytes(ids[1])
    ELSE Bytes(SubSeq(ids, 1, Len(ids) \div 2))
         \o Bytes(SubSeq(ids, Len(ids) \div 2 + 1, Len(ids)))

\* String::from_utf8_lossy of the byte-level decoder, byte by byte: a first
\* byte followed by its second byte is the character, the second byte so
\* taken gives nothing, and either byte alone is replaced
LossyAt(bytes, i) ==
    IF bytes[i] = "h"
    THEN IF i < Len(bytes) /\ bytes[i + 1] = "l" THEN <<"E">> ELSE <<"X">>
    ELSE IF bytes[i] = "l"
    THEN IF i > 1 /\ bytes[i - 1] = "h" THEN <<>> ELSE <<"X">>
    ELSE <<bytes[i]>>

RECURSIVE LossyRange(_, _, _)
LossyRange(bytes, lo, hi) ==
    IF lo > hi THEN <<>>
    ELSE IF lo = hi THEN LossyAt(bytes, lo)
    ELSE LossyRange(bytes, lo, (lo + hi) \div 2)
         \o LossyRange(bytes, (lo + hi) \div 2 + 1, hi)

\* String::from_utf8_lossy
Lossy(bytes) == LossyRange(bytes, 1, Len(bytes))

\* TokenOutputStream::decode
Decode(ids) == Lossy(Bytes(ids))

\* TokenOutputStream::new / TokenOutputStream::clear
ClearedStream == [tokens |-> <<>>, prev_index |-> 0, current_index |-> 0]

\* tokens[from..to] of a Rust slice (from, to are 0-based, to exclusive)
Slice(s, from, to) == SubSeq(s, from + 1, to)

PrevText(tos) ==
    IF tos.tokens = <<>> THEN <<>>
    ELSE Decode(Slice(tos.tokens, tos.prev_index, tos.current_index))

\* (a variant that returns the whole text instead of what is new in it)
NextToken_Whole(tos, token) ==
    LET prev_text == PrevText(tos)
        toks == Append(tos.tokens, token)
        text == Decode(Slice(toks, tos.prev_index, Len(toks)))
    IN  IF StrLen(text) > StrLen(prev_text) /\ IsAlphanumeric(text[Len(text)])
        THEN [tos |-> [tokens |-> toks, prev_index |-> tos.current_index,
                       current_index |-> Len(toks)],
              out |-> Some(text)]
        ELSE [tos |-> [tos EXCEPT !.tokens = toks], out |-> None]

\* TokenOutputStream::next_token: the stream after the call and the
\* fragment it returns
NextToken(tos, token) ==
    LET prev_text == PrevText(tos)
        toks == Append(tos.tokens, token)
        text == Decode(Slice(toks, tos.prev_index, Len(toks)))
    IN  IF StrLen(text) > StrLen(prev_text) /\ IsAlphanumeric(text[Len(text)])
        THEN [tos |-> [tokens |-> toks, prev_index |-> tos.current_index,
                       current_index |-> Len(toks)],
              out |-> Some(SplitAt(text, StrLen(prev_text)))]
        ELSE [tos |-> [tos EXCEPT !.tokens = toks], out |-> None]

\* TokenOutputStream::decode_rest (takes &self: the stream is not changed)
DecodeRest(tos) ==
    LET prev_text == PrevText(tos)
        text == Decode(Slice(tos.tokens, tos.prev_index, Len(tos.tokens)))
    IN  IF StrLen(text) > StrLen(prev_text)
        THEN Some(SplitAt(text, StrLen(prev_text)))
        ELSE None

\* TokenOutputStream::get_token: a lookup in the tokenizer's vocabulary
GetToken(vocab, name) ==
    IF name \in vocab
    THEN Some(IF name = "<|endoftext|>" THEN EndOfText ELSE ImEnd)
    ELSE None


(***************************************************************************)
(* Prompt composition, lines 92-112.                                       *)
(***************************************************************************)
Prompts == {<<"a">>, <<"E", "_">>}
Schemas == {<<"a">>, <<"_", "a">>}

\* SYSTEM_PROMPT, as one piece of text
SYSTEM_PROMPT == <<"a">>

\* format!("{}\nSCHEMA: {}", prompt, table_schema)
CombinedPrompt(prompt, table_schema) == prompt \o <<"_", "a", "_">> \o table_schema

\* apply_template(ChatML, [system, user], add_generation_prompt = true):
\* <|im_start|>role\ncontent<|im_end|>\n per message, then
\* <|im_start|>assistant\n
ChatML(content) == <<"<|im_start|>", "a", "_">> \o content \o <<"<|im_end|>", "_">>

ApplyTemplate(prompt, table_schema) ==
    ChatML(SYSTEM_PROMPT) \o ChatML(CombinedPrompt(prompt, table_schema))
        \o <<"<|im_start|>", "a", "_">>

\* the ids of one character; a marker the vocabulary does not hold is
\* split into ordinary pieces
EncodeChar(ch, vocab) ==
    CASE ch = "a" -> <<TokA>>
      [] ch = "_" -> <<TokS>>
      [] ch = "E" -> <<TokH, TokL>>
      [] ch = "<|im_start|>" -> <<ImStart>>
      [] ch = "<|im_end|>" -> IF ch \in vocab THEN <<ImEnd>> ELSE <<TokS, TokA, TokS>>
      [] OTHER -> <<TokS>>

RECURSIVE Encode(_, _)
\* Tokenizer::encode(text, true).get_ids()
Encode(text, vocab) ==
    IF text = <<>> THEN <<>>
    ELSE EncodeChar(Head(text), vocab) \o Encode(Tail(text), vocab)

(***************************************************************************)
(* The model, line 128.  The KV cache is the sequence of (token, position) *)
(* pairs the forward passes were given; an entry also records, for the     *)
(* properties only, which caller's call gave it (by = 0: a call that has   *)
(* returned).  The logits of a pass are a function of the weights and of   *)
(* everything the cache holds after the pass.                              *)
(***************************************************************************)
Weights == 0..(NumWeights - 1)

\* The attention state after the first n cached positions is a running
\* hash h' = (3 * h + 5 * tok + pos + 1) % 31 of the positions in order.
\* Positions lo..hi take h to (a * h + b) % 31; the pair is built by halves
\* to keep the evaluation shallow on a long cache.
CtxStep(l, r) == [a |-> (r.a * l.a) % 31, b |-> (r.a * l.b + r.b) % 31]

RECURSIVE CtxFold(_, _, _)
CtxFold(cache, lo, hi) ==
    IF lo > hi THEN [a |-> 1, b |-> 0]
    ELSE IF lo = hi THEN [a |-> 3, b |-> (cache[lo].tok * 5 + cache[lo].pos + 1) % 31]
    ELSE CtxStep(CtxFold(cache, lo, (lo + hi) \div 2),
                 CtxFold(cache, (lo + hi) \div 2 + 1, hi))

CtxHash(cache, n) == CtxFold(cache, 1, n).b

\* weights 0 answer the question "a" about the schema "a" (the ids at
\* offsets 9 and 13 of the prompt) without ever preferring a stop token, as
\* long as the cache holds one position per offset
Endless(w, cache) ==
    /\ w = 0
    /\ Len(cache) >= 14
    /\ cache[10].tok = TokA
    /\ cache[14].tok = TokA
    /\ cache[Len(cache)].pos = Len(cache) - 1

LogitsOf(w, cache) ==
    LET h == CtxHash(cache, Len(cache))
    IN  [t \in Vocab |->
            IF Endless(w, cache) /\ t \in {ImEnd, EndOfText} THEN -40
            ELSE ((h * (t + 3) + 7 * t + 5 * w) % 13) - 6]

\* ModelForCausalLM::forward(input, start_pos): the cache after the pass
CacheAfter(cache, ctxt, start_pos, c) ==
    cache \o [i \in 1..Len(ctxt) |-> [tok |-> ctxt[i], pos |-> start_pos + i - 1, by |-> c]]

(***************************************************************************)
(* Sampling, lines 130-141.  Penalised logits are kept in units of         *)
(* 1 / (PenaltyNum * PenaltyDen), so that dividing and multiplying by the  *)
(* penalty are exact.                                                      *)
(***************************************************************************)
Range(s) == {s[i] : i \in 1..Len(s)}

\* (a variant that multiplies every repeated logit by 1 / penalty)
ApplyRepeatPenalty_DivideOnly(logits, context) ==
    [t \in Vocab |->
        IF t \in Range(context) THEN logits[t] * PenaltyDen * PenaltyDen
        ELSE logits[t] * PenaltyNum * PenaltyDen]

\* candle_transformers::utils::apply_repeat_penalty
ApplyRepeatPenalty(logits, context) ==
    [t \in Vocab |->
        IF t \in Range(context)
        THEN IF logits[t] >= 0 THEN logits[t] * PenaltyDen * PenaltyDen
                               ELSE logits[t] * PenaltyNum * PenaltyNum
        ELSE logits[t] * PenaltyNum * PenaltyDen]

\* (a variant that takes the whole sequence)
Window_Whole(tokens) == tokens

\* lines 133 and 137: &tokens[start_at..], the trailing repeat_last_n ids
Window(tokens) ==
    LET start_at == IF Len(tokens) > RepeatLastN THEN Len(tokens) - RepeatLastN ELSE 0
    IN  Slice(tokens, start_at, Len(tokens))

\* lines 130-139
Penalized(logits, tokens) ==
    IF PenaltyNum = PenaltyDen THEN [t \in Vocab |-> logits[t] * PenaltyNum * PenaltyDen]
    ELSE ApplyRepeatPenalty(logits, Window(tokens))

\* sample_argmax: max_by keeps the last of several maxima
ArgMax(logits) ==
    CHOOSE t \in Vocab : \A u \in Vocab : logits[u] < logits[t] \/ (logits[u] = logits[t] /\ u <= t)

\* the random stream of the LogitsProcessor
NextRng(r) == ((r % 65537) * 75 + 74) % 65537

\* (a variant that draws from the stream whatever the temperature)
SampleToken_Draws(logits, r) ==
    [token |-> NextRng(r) % Cardinality(Vocab), rng |-> NextRng(r)]

\* LogitsProcessor::sample: the token and the random stream after the call.
\* A temperature of 0 is argmax; any other draws from the stream.
SampleToken(logits, r) ==
    IF Temperature = 0 THEN [token |-> ArgMax(logits), rng |-> r]
    ELSE [token |-> NextRng(r) % Cardinality(Vocab), rng |-> NextRng(r)]


(***************************************************************************)
(* State.                                                                  *)
(***************************************************************************)
Callers == {1, 2}

VARIABLES
    sess,        \* "absent", "live" or "failed": create_sql_code_generator
    vocab,       \* the special tokens the loaded tokenizer knows
    weights,     \* the loaded model weights
    kv,          \* self.model: the KV cache
    tos,         \* self.tokenizer: the TokenOutputStream
    rng,         \* self.logits_processor: its random stream
    frame,       \* per caller: the position in generate and its locals
    hist,        \* how the last call on this session ended ("fresh": none yet)
    probe,       \* the input and result of a call made on a fresh session
    overlapped,  \* two calls were inside generate at once on this session
    shared       \* a second caller holds the session too

vars == <<sess, vocab, weights, kv, tos, rng, frame, hist, probe, overlapped, shared>>

session == <<sess, vocab, weights, kv, tos, rng>>

\* the locals of generate before line 91, and after it has returned.  The
\* fields from n_prompt on are kept for the properties only: the length of
\* the encoded prompt, the forward passes begun, the tokens sampled, the
\* tokens fed to the stream, whether a stop token ended the loop, whether
\* the flush ran, whether a pass ran on a cache holding another call's
\* positions, and hist, kv and rng as the call found them; then the window
\* the last penalty was given, the result of the caller's call before this
\* one, and the number of ids the stream held when the call began.
IdleFrame ==
    [pc |-> "idle", prompt |-> <<>>, table_schema |-> <<>>, tokens |-> <<>>,
     output |-> <<>>, eos_token |-> None, eos_token2 |-> None, index |-> 0,
     logits |-> <<>>, penalized |-> <<>>, result |-> None,
     n_prompt |-> 0, fwd |-> 0, smp |-> 0, fed |-> 0, stopped |-> FALSE,
     flushed |-> FALSE, foreign |-> FALSE, h0 |-> "fresh", kv0 |-> <<>>, rng0 |-> 0,
     window |-> <<>>, r0 |-> None, n_tos0 |-> 0]

InFlight(c) == frame[c].pc # "idle"

Ok(text) == [kind |-> "Ok", text |-> text]
Err(e) == [kind |-> "Err", err |-> e]

\* how a call that returns res from frame f ended, for hist
Outcome(f, res) ==
    IF res.kind = "Ok" THEN (IF hist = "fresh" THEN "okFirst" ELSE "ok")
    ELSE IF f.fwd = 0 THEN "early" ELSE "late"

\* the frame after generate has returned res from frame f: the locals are
\* dropped
Returned(f, res) ==
    [IdleFrame EXCEPT !.result = res, !.prompt = f.prompt,
                      !.table_schema = f.table_schema, !.n_prompt = f.n_prompt,
                      !.fwd = f.fwd, !.smp = f.smp, !.fed = f.fed,
                      !.stopped = f.stopped, !.flushed = f.flushed,
                      !.foreign = f.foreign, !.h0 = f.h0, !.kv0 = f.kv0,
                      !.rng0 = f.rng0]

ReturnFrom(c, f, res) ==
    /\ frame' = [frame EXCEPT ![c] = Returned(f, res)]
    /\ hist' = Outcome(f, res)

\* return res from generate
Return(c, res) == ReturnFrom(c, frame[c], res)

Start ==
    /\ sess = "absent"
    /\ vocab = {}
    /\ weights \in Weights
    /\ kv = <<>>
    /\ tos = ClearedStream
    /\ rng = 0
    /\ frame = [c \in Callers |-> IdleFrame]
    /\ hist = "fresh"
    /\ probe = None
    /\ overlapped = FALSE

Init == Start /\ shared = FALSE

InitShared == Start /\ shared = TRUE

(***************************************************************************)
(* lib.rs: create_sql_code_generator, and the Box being dropped.           *)
(***************************************************************************)
VocabChoices == SUBSET {"<|endoftext|>", "<|im_end|>"}

\* SqlCodeGenerator::new, lines 61-88: nothing looks the stop tokens up
New(v) ==
    /\ sess = "absent"
    /\ sess' = "live"
    /\ vocab' = v
    /\ kv' = <<>>
    /\ tos' = ClearedStream
    /\ rng' = Seed
    /\ hist' = "fresh"
    /\ overlapped' = FALSE
    /\ UNCHANGED <<weights, frame, probe, shared>>

\* a `?` of new() fails: lib.rs line 6 panics
NewFail ==
    /\ sess = "absent"
    /\ sess' = "failed"
    /\ UNCHANGED <<vocab, weights, kv, tos, rng, frame, hist, probe, overlapped, shared>>

\* the session is dropped; the result of a session's only call, made while
\* it was fresh, is remembered
Drop ==
    /\ sess = "live"
    /\ \A c \in Callers : ~InFlight(c)
    /\ sess' = "absent"
    /\ vocab' = {}
    /\ kv' = <<>>
    /\ tos' = ClearedStream
    /\ rng' = 0
    /\ hist' = "fresh"
    /\ overlapped' = FALSE
    /\ probe' = IF hist = "okFirst" /\ ~shared
                THEN LET c == CHOOSE c \in Callers : frame[c].result # None
                     IN  Some([prompt |-> frame[c].prompt,
                               table_schema |-> frame[c].table_schema,
                               text |-> frame[c].result.text])
                ELSE probe
    /\ frame' = [c \in Callers |-> IdleFrame]
    /\ UNCHANGED <<weights, shared>>


(***************************************************************************)
(* SqlCodeGenerator::generate, lines 90-155.                               *)
(***************************************************************************)
\* (a variant that knows one stop token only)
IsStop_OnlyEndOfText(c, token) == Some(token) = frame[c].eos_token

IsStop(c, token) ==
    Some(token) = frame[c].eos_token \/ Some(token) = frame[c].eos_token2

\* (a variant that clears the KV cache when the call begins)
Enter_Resets(c, prompt, table_schema) ==
    /\ sess = "live"
    /\ c = 1 \/ shared
    /\ shared => frame[c].result = None
    /\ ~InFlight(c)
    /\ Len(kv) <= MaxStale
    /\ tos' = ClearedStream
    /\ kv' = <<>>
    /\ frame' = [frame EXCEPT ![c] =
            [IdleFrame EXCEPT !.pc = "compose", !.prompt = prompt,
                              !.table_schema = table_schema,
                              !.h0 = hist, !.kv0 = kv', !.rng0 = rng,
                              !.r0 = frame[c].result,
                              !.n_tos0 = Len(tos.tokens)]]
    /\ overlapped' = (overlapped \/ \E d \in Callers \ {c} : InFlight(d))
    /\ UNCHANGED <<sess, vocab, weights, rng, hist, probe, shared>>

\* (a variant that does not clear the TokenOutputStream)
Enter_KeepsStream(c, prompt, table_schema) ==
    /\ sess = "live"
    /\ c = 1 \/ shared
    /\ shared => frame[c].result = None
    /\ ~InFlight(c)
    /\ Len(kv) <= MaxStale
    /\ kv' = [i \in 1..Len(kv) |-> IF kv[i].by = c THEN [kv[i] EXCEPT !.by = 0] ELSE kv[i]]
    /\ frame' = [frame EXCEPT ![c] =
            [IdleFrame EXCEPT !.pc = "compose", !.prompt = prompt,
                              !.table_schema = table_schema,
                              !.h0 = hist, !.kv0 = kv', !.rng0 = rng,
                              !.r0 = frame[c].result,
                              !.n_tos0 = Len(tos.tokens)]]
    /\ overlapped' = (overlapped \/ \E d \in Callers \ {c} : InFlight(d))
    /\ UNCHANGED <<sess, vocab, weights, tos, rng, hist, probe, shared>>

\* lines 90-91: the call begins and clears the TokenOutputStream.  What the
\* cache holds from the caller's earlier call is no longer its own.
Enter(c, prompt, table_schema) ==
    /\ sess = "live"
    /\ c = 1 \/ shared
    /\ shared => frame[c].result = None
    /\ ~InFlight(c)
    /\ Len(kv) <= MaxStale
    /\ tos' = ClearedStream
    /\ kv' = [i \in 1..Len(kv) |-> IF kv[i].by = c THEN [kv[i] EXCEPT !.by = 0] ELSE kv[i]]
    /\ frame' = [frame EXCEPT ![c] =
            [IdleFrame EXCEPT !.pc = "compose", !.prompt = prompt,
                              !.table_schema = table_schema,
                              !.h0 = hist, !.kv0 = kv', !.rng0 = rng,
                              !.r0 = frame[c].result,
                              !.n_tos0 = Len(tos.tokens)]]
    /\ overlapped' = (overlapped \/ \E d \in Callers \ {c} : InFlight(d))
    /\ UNCHANGED <<sess, vocab, weights, rng, hist, probe, shared>>

\* lines 92-112: the transcript is rendered and encoded
Compose(c) ==
    /\ frame[c].pc = "compose"
    /\ LET ids == Encode(ApplyTemplate(frame[c].prompt, frame[c].table_schema), vocab)
       IN  frame' = [frame EXCEPT ![c].pc = "resolve", ![c].tokens = ids,
                                  ![c].n_prompt = Len(ids)]
    /\ UNCHANGED <<session, hist, probe, overlapped, shared>>

\* (a variant that has given a token to the model before it fails)
ComposeFail_Dirty(c, e) ==
    /\ frame[c].pc = "compose"
    /\ e \in {"TemplateError", "EncodeError"}
    /\ kv' = Append(kv, [tok |-> ImStart, pos |-> 0, by |-> c])
    /\ Return(c, Err(e))
    /\ UNCHANGED <<sess, vocab, weights, tos, rng, probe, overlapped, shared>>

\* the `?` of line 105 or of line 110
ComposeFail(c, e) ==
    /\ frame[c].pc = "compose"
    /\ e \in {"TemplateError", "EncodeError"}
    /\ Return(c, Err(e))
    /\ UNCHANGED <<session, probe, overlapped, shared>>

\* lines 113-122: the output starts empty and both stop tokens are looked up
Resolve(c) ==
    /\ frame[c].pc = "resolve"
    /\ LET eos == GetToken(vocab, "<|endoftext|>")
           eos2 == GetToken(vocab, "<|im_end|>")
       IN  IF eos = None THEN Return(c, Err("cannot find the <|endoftext|> token"))
           ELSE IF eos2 = None THEN Return(c, Err("cannot find the <|im_end|> token"))
           ELSE /\ frame' = [frame EXCEPT ![c].pc = "forward", ![c].output = <<>>,
                                          ![c].eos_token = eos, ![c].eos_token2 = eos2,
                                          ![c].index = 0]
                /\ UNCHANGED hist
    /\ UNCHANGED <<session, probe, overlapped, shared>>

\* (a variant that gives the model the whole sequence at every pass)
StartPos_Zero(c) == 0

\* lines 124-126
StartPos(c) ==
    LET context_size == IF frame[c].index > 0 THEN 1 ELSE Len(frame[c].tokens)
    IN  IF Len(frame[c].tokens) > context_size THEN Len(frame[c].tokens) - context_size ELSE 0

Ctxt(c) == Slice(frame[c].tokens, StartPos(c), Len(frame[c].tokens))

\* a shared session is explored up to MaxShared cached positions
Explored == shared => Len(kv) < MaxShared

\* the cache holds a position that this call of c did not put there
Foreign(c) == \E i \in 1..Len(kv) : kv[i].by # c

\* lines 123-129: one forward pass over the context, at start_pos
Forward(c) ==
    /\ frame[c].pc = "forward"
    /\ Explored
    /\ LET cache == CacheAfter(kv, Ctxt(c), StartPos(c), c)
       IN  /\ kv' = cache
           /\ frame' = [frame EXCEPT ![c].pc = "sample", ![c].fwd = @ + 1,
                                     ![c].foreign = @ \/ Foreign(c),
                                     ![c].logits = LogitsOf(weights, cache)]
    /\ UNCHANGED <<sess, vocab, weights, tos, rng, hist, probe, overlapped, shared>>

\* (a variant that clears the cache before it returns the error)
ForwardFail_Resets(c, cached) ==
    /\ frame[c].pc = "forward"
    /\ Explored
    /\ kv' = <<>>
    /\ ReturnFrom(c, [frame[c] EXCEPT !.fwd = @ + 1, !.foreign = @ \/ Foreign(c)],
                  Err("ModelForwardError"))
    /\ UNCHANGED <<sess, vocab, weights, tos, rng, probe, overlapped, shared>>

\* a `?` of lines 127-129 fails: before the pass changed the cache (line
\* 127) or after it did (lines 128-129)
ForwardFail(c, cached) ==
    /\ frame[c].pc = "forward"
    /\ Explored
    /\ kv' = IF cached THEN CacheAfter(kv, Ctxt(c), StartPos(c), c) ELSE kv
    /\ ReturnFrom(c, [frame[c] EXCEPT !.fwd = @ + 1, !.foreign = @ \/ Foreign(c)],
                  Err("ModelForwardError"))
    /\ UNCHANGED <<sess, vocab, weights, tos, rng, probe, overlapped, shared>>

\* lines 130-142: the repetition penalty, the sampler, tokens.push
Sample(c) ==
    /\ frame[c].pc = "sample"
    /\ LET logits == Penalized(frame[c].logits, frame[c].tokens)
           got == SampleToken(logits, rng)
       IN  /\ rng' = got.rng
           /\ frame' = [frame EXCEPT ![c].pc = "emit", ![c].smp = @ + 1,
                                     ![c].penalized = logits,
                                     ![c].window = Window(frame[c].tokens),
                                     ![c].tokens = Append(@, got.token)]
    /\ UNCHANGED <<sess, vocab, weights, kv, tos, hist, probe, overlapped, shared>>

\* the `?` of line 138 or of line 141
SampleFail(c) ==
    /\ frame[c].pc = "sample"
    /\ Return(c, Err("SampleError"))
    /\ UNCHANGED <<session, probe, overlapped, shared>>

\* (a variant whose loop has no step budget)
LoopNext_NoBudget(index) == "forward"

\* (a variant whose budget does not count the first iteration)
LoopNext_OneMore(index) == IF index < MaxSteps THEN "forward" ELSE "flush"

\* where the loop goes after an iteration that did not break
LoopNext(index) == IF index + 1 < MaxSteps THEN "forward" ELSE "flush"

\* lines 143-149: break on a stop token, else feed the token to the
\* TokenOutputStream and append the fragment it returns
Emit(c) ==
    /\ frame[c].pc = "emit"
    /\ LET next_token == frame[c].tokens[Len(frame[c].tokens)]
           got == NextToken(tos, next_token)
       IN  IF IsStop(c, next_token)
           THEN /\ frame' = [frame EXCEPT ![c].pc = "flush", ![c].stopped = TRUE]
                /\ UNCHANGED tos
           ELSE /\ tos' = got.tos
                /\ frame' = [frame EXCEPT
                        ![c].pc = LoopNext(frame[c].index),
                        ![c].index = @ + 1,
                        ![c].fed = @ + 1,
                        ![c].output = IF got.out = None THEN @ ELSE @ \o got.out.val]
    /\ UNCHANGED <<sess, vocab, weights, kv, rng, hist, probe, overlapped, shared>>

\* the `?` of line 146: a decode inside next_token fails, before or after
\* the token was pushed onto the stream
EmitFail(c, pushed) ==
    /\ frame[c].pc = "emit"
    /\ LET next_token == frame[c].tokens[Len(frame[c].tokens)]
       IN  /\ ~IsStop(c, next_token)
           /\ tos' = IF pushed THEN [tos EXCEPT !.tokens = Append(@, next_token)] ELSE tos
    /\ Return(c, Err("DecodeError"))
    /\ UNCHANGED <<sess, vocab, weights, kv, rng, probe, overlapped, shared>>

\* (a variant that clears the cache before it flushes the stream)
Flush_ClearsFirst(c) ==
    /\ frame[c].pc = "flush"
    /\ kv' = <<>>
    /\ LET rest == DecodeRest(tos)
       IN  frame' = [frame EXCEPT ![c].pc = "clear", ![c].flushed = TRUE,
                                  ![c].output = IF rest = None THEN @ ELSE @ \o rest.val]
    /\ UNCHANGED <<sess, vocab, weights, tos, rng, hist, probe, overlapped, shared>>

\* lines 150-152: the rest the stream still holds is appended
Flush(c) ==
    /\ frame[c].pc = "flush"
    /\ LET rest == DecodeRest(tos)
       IN  frame' = [frame EXCEPT ![c].pc = "clear", ![c].flushed = TRUE,
                                  ![c].output = IF rest = None THEN @ ELSE @ \o rest.val]
    /\ UNCHANGED <<session, hist, probe, overlapped, shared>>

\* (a variant that clears the cache before it returns the error)
FlushFail_Resets(c) ==
    /\ frame[c].pc = "flush"
    /\ kv' = <<>>
    /\ Return(c, Err("DecodeError"))
    /\ UNCHANGED <<sess, vocab, weights, tos, rng, probe, overlapped, shared>>

\* the `?` of line 150
FlushFail(c) ==
    /\ frame[c].pc = "flush"
    /\ Return(c, Err("DecodeError"))
    /\ UNCHANGED <<session, probe, overlapped, shared>>

\* (a variant that returns without clearing the cache)
Finish_NoClear(c) ==
    /\ frame[c].pc = "clear"
    /\ Return(c, Ok(frame[c].output))
    /\ UNCHANGED <<sess, vocab, weights, kv, tos, rng, probe, overlapped, shared>>

\* lines 153-154: the cache is cleared and the output returned
Finish(c) ==
    /\ frame[c].pc = "clear"
    /\ kv' = <<>>
    /\ Return(c, Ok(frame[c].output))
    /\ UNCHANGED <<sess, vocab, weights, tos, rng, probe, overlapped, shared>>

\* a call begins
Begin(c) == \E prompt \in Prompts, table_schema \in Schemas : Enter(c, prompt, table_schema)

\* a call that has begun takes its next step
Step(c) ==
    \/ Compose(c)
    \/ \E e \in {"TemplateError", "EncodeError"} : ComposeFail(c, e)
    \/ Resolve(c)
    \/ Forward(c)
    \/ \E cached \in BOOLEAN : ForwardFail(c, cached)
    \/ Sample(c)
    \/ SampleFail(c)
    \/ Emit(c)
    \/ \E pushed \in BOOLEAN : EmitFail(c, pushed)
    \/ Flush(c)
    \/ FlushFail(c)
    \/ Finish(c)

Generate(c) == Begin(c) \/ Step(c)

Lifecycle ==
    \/ \E v \in VocabChoices : New(v)
    \/ NewFail
    \/ Drop

(***************************************************************************)
(* Spec: one caller holds the session, so its calls are serialised, as     *)
(* generate(&mut self) demands.  SpecShared: a second caller reaches the   *)
(* same session through the bridge and nothing keeps the calls apart.      *)
(***************************************************************************)
Next == Lifecycle \/ \E c \in Callers : Generate(c)

Spec == Init /\ [][Next]_vars

SpecShared == InitShared /\ [][Next]_vars

(***************************************************************************)
(* Properties.                                                             *)
(***************************************************************************)
\* caller c's call has returned and no later call of c has begun
HasReturned(c) == frame[c].pc = "idle" /\ frame[c].result # None

ReturnedOk(c) == HasReturned(c) /\ frame[c].result.kind = "Ok"

ReturnedErr(c, e) == HasReturned(c) /\ frame[c].result = Err(e)

\* the call of c was given the input the probe was made with
SameInputAsProbe(c) ==
    /\ probe # None
    /\ probe.val.prompt = frame[c].prompt
    /\ probe.val.table_schema = frame[c].table_schema

\* the ids this call has sampled so far
Sampled(c) == Slice(frame[c].tokens, frame[c].n_prompt, Len(frame[c].tokens))

\* C1: whenever a generate call has returned, with a result or with an
\* error, the KV cache is empty and the TokenOutputStream is cleared.
C1_CleanAfterEveryCall ==
    \A c \in Callers : HasReturned(c) => kv = <<>> /\ tos = ClearedStream

\* C2: a successful call that follows a successful call on the same session
\* starts from the cache, stream and random stream of a fresh session and
\* returns what a call with the same input returned on a fresh session.
C2_NoLeakAfterSuccess ==
    \A c \in Callers :
        frame[c].h0 \in {"okFirst", "ok"} =>
            /\ frame[c].pc = "compose" => kv = <<>> /\ tos = ClearedStream /\ rng = Seed
            /\ ReturnedOk(c) /\ SameInputAsProbe(c) => frame[c].result.text = probe.val.text

\* a second call succeeded after a successful one, with an input that a
\* fresh session had answered with some text
C2_Witness ==
    \E c \in Callers :
        /\ frame[c].h0 \in {"okFirst", "ok"}
        /\ ReturnedOk(c)
        /\ SameInputAsProbe(c)
        /\ frame[c].result.text # <<>>

\* C3: a stop token is only ever the last id sampled; once it is sampled the
\* call is past the loop, having made as many forward passes and samplings
\* as it had when the stop token was drawn, and no stop token is ever in the
\* TokenOutputStream.
C3_StopEndsLoop ==
    \A c \in Callers :
        /\ \A i \in 1..Len(tos.tokens) : tos.tokens[i] \notin {EndOfText, ImEnd}
        /\ InFlight(c) /\ frame[c].pc \notin {"compose", "resolve"} =>
              LET ids == Sampled(c)
              IN  /\ \A i \in 1..Len(ids) : ids[i] \in {EndOfText, ImEnd} => i = Len(ids)
                  /\ ids # <<>> /\ ids[Len(ids)] \in {EndOfText, ImEnd} =>
                        /\ frame[c].pc \in {"emit", "flush", "clear"}
                        /\ frame[c].fwd = Len(ids)
                        /\ frame[c].smp = Len(ids)
                        /\ frame[c].fed = Len(ids) - 1
        /\ frame[c].stopped => frame[c].fed = frame[c].smp - 1 /\ frame[c].fwd = frame[c].smp

\* a call returned text after <|im_end|> ended its loop
C3_Witness ==
    \E c \in Callers :
        /\ ReturnedOk(c)
        /\ frame[c].stopped
        /\ frame[c].fed > 0
        /\ frame[c].result.text # <<>>

\* all MaxSteps iterations of the loop ran without a break
Exhausted(c) == frame[c].fed = MaxSteps

\* the most steps the call of c can still take before it returns
Rank(c) ==
    LET left == 3 * (MaxSteps - frame[c].index)
    IN  CASE frame[c].pc = "compose" -> 3 * MaxSteps + 4
          [] frame[c].pc = "resolve" -> 3 * MaxSteps + 3
          [] frame[c].pc = "forward" -> left + 2
          [] frame[c].pc = "sample" -> left + 1
          [] frame[c].pc = "emit" -> left
          [] frame[c].pc = "flush" -> 2
          [] frame[c].pc = "clear" -> 1
          [] OTHER -> 0

\* the guards of Step(c): the call is at a line that has a step, and a
\* forward pass is within what is explored
CanStep(c) ==
    /\ frame[c].pc \in {"compose", "resolve", "forward", "sample", "emit", "flush", "clear"}
    /\ frame[c].pc = "forward" => Explored

\* C4: every call that has begun returns, as long as each operation
\* returns: the call always has a next step, every step it takes lowers a
\* rank that is never negative, and the loop never begins an iteration
\* beyond the step budget.  A call whose loop used the whole budget without
\* sampling a stop token goes on to the flush and returns Ok with its output
\* (the only error left to it is the flush itself failing).
C4_Terminates ==
    /\ [](\A c \in Callers :
            /\ Rank(c) >= 0
            /\ InFlight(c) => CanStep(c)
            /\ frame[c].pc \in {"forward", "sample", "emit"} => frame[c].index < MaxSteps
            /\ InFlight(c) /\ Exhausted(c) => frame[c].pc \in {"flush", "clear"} /\ ~frame[c].stopped
            /\ HasReturned(c) /\ Exhausted(c) =>
                  \/ frame[c].result.kind = "Ok" /\ frame[c].flushed
                  \/ frame[c].result = Err("DecodeError") /\ ~frame[c].flushed)
    /\ [][\A c \in Callers : InFlight(c) /\ frame'[c] # frame[c] => Rank(c)' < Rank(c)]_vars

\* a call used the whole budget without a stop token and returned Ok
C4_Witness ==
    \E c \in Callers :
        /\ ReturnedOk(c)
        /\ Exhausted(c)
        /\ ~frame[c].stopped
        /\ frame[c].smp = MaxSteps
        /\ frame[c].result.text # <<>>

\* C5: a call that returns Ok returns text that is not empty.
C5_NeverEmptyOk ==
    \A c \in Callers : ReturnedOk(c) => frame[c].result.text # <<>>

\* C6: a session is live only with a tokenizer that knows both stop tokens,
\* and no generate call returns a missing-stop-token error.
C6_StopTokensCheckedByNew ==
    /\ sess = "live" => vocab = {"<|endoftext|>", "<|im_end|>"}
    /\ \A c \in Callers :
          /\ ~ReturnedErr(c, "cannot find the <|endoftext|> token")
          /\ ~ReturnedErr(c, "cannot find the <|im_end|> token")

\* the call of c failed in the template or in the encoding
ComposeFailed(c) == ReturnedErr(c, "TemplateError") \/ ReturnedErr(c, "EncodeError")

\* C7: a call that fails in the template or in the encoding has made no
\* forward pass and no sampling and returns with the KV cache and the random
\* stream as it found them; the call after it, on a session whose cache was
\* empty, returns what a call with the same input returned on a fresh
\* session.
C7_ComposeFailureIsHarmless ==
    \A c \in Callers :
        /\ ComposeFailed(c) =>
              /\ frame[c].fwd = 0
              /\ frame[c].smp = 0
              /\ kv = frame[c].kv0
              /\ rng = frame[c].rng0
        /\ frame[c].h0 = "early" /\ frame[c].kv0 = <<>> =>
              /\ InFlight(c) => rng = Seed
              /\ frame[c].pc = "compose" => kv = <<>> /\ tos = ClearedStream
              /\ ReturnedOk(c) /\ SameInputAsProbe(c) => frame[c].result.text = probe.val.text

\* a call succeeded right after a call that failed before its first pass, on
\* a session that can generate
C7_Witness ==
    \E c \in Callers :
        /\ frame[c].h0 = "early"
        /\ frame[c].kv0 = <<>>
        /\ ReturnedOk(c)
        /\ SameInputAsProbe(c)
        /\ frame[c].result.text # <<>>

\* the positions the completed passes of c's call have cached, and the
\* length of the context of the pass after them
CachedByCall(c) == IF frame[c].smp = 0 THEN 0 ELSE frame[c].n_prompt + frame[c].smp - 1

NextCtxtLen(c) == IF frame[c].smp = 0 THEN frame[c].n_prompt ELSE 1

\* C8: a call that returns a forward-pass error did nothing after the
\* failing pass (every earlier pass was followed by its sampling, the failing
\* one was not; no flush ran) and the cache is not reset: it holds what it
\* held when the call began, then what the call's earlier passes cached, and
\* at most the context of the failing pass.
C8_ForwardErrorLeavesCache ==
    \A c \in Callers :
        ReturnedErr(c, "ModelForwardError") =>
            /\ frame[c].fwd = frame[c].smp + 1
            /\ ~frame[c].flushed
            /\ ~frame[c].stopped
            /\ frame[c].fed = frame[c].smp
            /\ Len(kv) \in {Len(frame[c].kv0) + CachedByCall(c),
                            Len(frame[c].kv0) + CachedByCall(c) + NextCtxtLen(c)}
            /\ SubSeq(kv, 1, Len(frame[c].kv0)) = frame[c].kv0
            /\ \A i \in (Len(frame[c].kv0) + 1)..Len(kv) : kv[i].by = c

\* a Decode pass failed and the call returned with the prompt still cached
C8_Witness ==
    \E c \in Callers :
        /\ ReturnedErr(c, "ModelForwardError")
        /\ frame[c].smp >= 1
        /\ frame[c].kv0 = <<>>
        /\ Len(kv) >= frame[c].n_prompt
        /\ frame[c].n_prompt > 0

\* another caller's call on this session began a forward pass and returned
\* an error, so without clearing the cache
OtherFailed(c) ==
    \E d \in Callers \ {c} :
        HasReturned(d) /\ frame[d].result.kind = "Err" /\ frame[d].fwd > 0

\* the call of c has made a pass and the cache holds none of its positions
Discarded(c) ==
    /\ InFlight(c)
    /\ frame[c].pc \in {"sample", "emit"}
    /\ \A i \in 1..Len(kv) : kv[i].by # c

\* C9: on a session two callers share, a forward pass runs on a cache that
\* holds another call's positions, or a call's cached positions are cleared
\* under it, only if two calls were inside generate at once or the other
\* caller's call returned an error after it began a forward pass (and so
\* did not run to its cache reset).
C9_SerialCallsDoNotMix ==
    \A c \in Callers :
        /\ frame[c].foreign => overlapped \/ OtherFailed(c)
        /\ Discarded(c) => overlapped

\* two calls that both run without error interleave, and a forward pass runs
\* on a cache that holds the other call's positions
C9_Witness ==
    /\ overlapped
    /\ \A c \in Callers : frame[c].result = None
    /\ \E c \in Callers : frame[c].foreign /\ frame[c].pc = "sample"

\* C10: the random stream is never advanced; the id a sampling step pushes
\* is the argmax of the penalised logits; and a successful call on a fresh
\* session returns what a call with the same input returned on another
\* fresh session.
C10_GreedyIsDeterministic ==
    /\ sess = "live" => rng = Seed
    /\ \A c \in Callers :
          /\ frame[c].pc = "emit" =>
                LET n == Len(frame[c].tokens)
                IN  frame[c].tokens[n] =
                        ArgMax(Penalized(frame[c].logits, SubSeq(frame[c].tokens, 1, n - 1)))
          /\ frame[c].h0 = "fresh" /\ ReturnedOk(c) /\ SameInputAsProbe(c) =>
                frame[c].result.text = probe.val.text

\* a fresh session answered an input that another fresh session had
\* answered before
C10_Witness ==
    \E c \in Callers :
        /\ frame[c].h0 = "fresh"
        /\ ReturnedOk(c)
        /\ SameInputAsProbe(c)
        /\ frame[c].smp > 1
        /\ frame[c].result.text # <<>>

\* C11: at every sampling step, with the penalty of 1.10, the penalised
\* logit of an id in the window is never greater than the original and has
\* its sign: a logit of 0 or more is divided by the penalty, a negative one
\* multiplied by it, once however often the id is in the window; the logit
\* of an id outside the window is unchanged.  (Penalised logits are in units
\* of 1 / (PenaltyNum * PenaltyDen).)
C11_PenaltyKeepsSign ==
    \A c \in Callers :
        frame[c].pc = "emit" =>
            \A t \in Vocab :
                LET raw == frame[c].logits[t] * PenaltyNum * PenaltyDen
                    pen == frame[c].penalized[t]
                IN  IF \E i \in 1..Len(frame[c].window) : frame[c].window[i] = t
                    THEN /\ pen <= raw
                         /\ (raw > 0 => pen > 0) /\ (raw < 0 => pen < 0) /\ (raw = 0 => pen = 0)
                         /\ raw >= 0 => pen * PenaltyNum = raw * PenaltyDen
                         /\ raw < 0 => pen * PenaltyDen = raw * PenaltyNum
                    ELSE pen = raw

\* a sampling step penalised an id that is in the window several times and
\* has a positive logit, and one with a negative logit, and left alone an id
\* outside the window whose logit is not 0
C11_Witness ==
    \E c \in Callers :
        /\ frame[c].pc = "emit"
        /\ \E t, u, v \in Vocab :
              /\ Cardinality({i \in 1..Len(frame[c].window) : frame[c].window[i] = t}) > 1
              /\ frame[c].logits[t] > 0
              /\ frame[c].penalized[t] < frame[c].logits[t] * PenaltyNum * PenaltyDen
              /\ u \in Range(frame[c].window)
              /\ frame[c].logits[u] < 0
              /\ frame[c].penalized[u] < frame[c].logits[u] * PenaltyNum * PenaltyDen
              /\ v \notin Range(frame[c].window)
              /\ frame[c].logits[v] # 0

\* the ids among ids that are not stop tokens
NonStop(ids) == SelectSeq(ids, LAMBDA t : t \notin {EndOfText, ImEnd})

\* text a begins text b
IsPrefix(a, b) == Len(a) <= Len(b) /\ SubSeq(b, 1, Len(a)) = a

\* C12: the ids fed to the TokenOutputStream are the sampled ids that are
\* not stop tokens, in order; the fragments appended so far begin their
\* batch decode; and once the flush has run, and when the call returns Ok,
\* the text is exactly the batch decode of those ids.
C12_RoundTrip ==
    \A c \in Callers :
        /\ frame[c].pc \in {"forward", "flush", "clear"} =>
              /\ tos.tokens = NonStop(Sampled(c))
              /\ IsPrefix(frame[c].output, Decode(tos.tokens))
        /\ frame[c].pc = "clear" => frame[c].output = Decode(tos.tokens)
        /\ ReturnedOk(c) =>
              /\ Len(tos.tokens) = frame[c].fed
              /\ frame[c].result.text = Decode(tos.tokens)

\* a call returned a text of more than two characters that begins with
\* fragments the stream returned (they end with an alphanumeric character)
\* and ends with a rest that only the flush returns
C12_Witness ==
    \E c \in Callers :
        /\ ReturnedOk(c)
        /\ Len(frame[c].result.text) > 2
        /\ \E i \in 1..Len(frame[c].result.text) : IsAlphanumeric(frame[c].result.text[i])
        /\ ~IsAlphanumeric(frame[c].result.text[Len(frame[c].result.text)])

\* the cache holds exactly the first n ids of the call's token sequence, the
\* i-th at position i - 1
CacheIsPrefix(c, n) ==
    /\ Len(kv) = n
    /\ n <= Len(frame[c].tokens)
    /\ \A i \in 1..n : kv[i].tok = frame[c].tokens[i] /\ kv[i].pos = i - 1

\* C13: in a call that found the cache empty, the first pass is given the
\* whole encoded prompt at offset 0, every later pass the one id sampled
\* last at offset (sequence length - 1); the offset of a pass is the number
\* of positions cached, and the cache holds every id of the sequence the
\* model was given exactly once, at its own position.
C13_CacheDiscipline ==
    \A c \in Callers :
        frame[c].kv0 = <<>> /\ frame[c].pc \in {"forward", "sample", "emit", "flush", "clear"} =>
            /\ CacheIsPrefix(c, IF frame[c].fwd = 0 THEN 0 ELSE frame[c].n_prompt + frame[c].fwd - 1)
            /\ frame[c].pc = "forward" =>
                  /\ StartPos(c) = Len(kv)
                  /\ kv \o [i \in 1..Len(Ctxt(c)) |->
                                [tok |-> Ctxt(c)[i], pos |-> StartPos(c) + i - 1, by |-> c]]
                        = [i \in 1..Len(frame[c].tokens) |->
                                [tok |-> frame[c].tokens[i], pos |-> i - 1, by |-> c]]
                  /\ frame[c].fwd = 0 =>
                        StartPos(c) = 0 /\ Ctxt(c) = frame[c].tokens
                                        /\ Len(frame[c].tokens) = frame[c].n_prompt
                  /\ frame[c].fwd > 0 =>
                        /\ StartPos(c) = Len(frame[c].tokens) - 1
                        /\ Ctxt(c) = <<frame[c].tokens[Len(frame[c].tokens)]>>

\* a call that found the cache empty has made its first pass and two more
C13_Witness ==
    \E c \in Callers :
        /\ frame[c].kv0 = <<>>
        /\ frame[c].pc = "sample"
        /\ frame[c].fwd = 3
        /\ Len(kv) = frame[c].n_prompt + 2

\* C14 as stated: a call that returns without having sampled a stop token
\* has made the first pass and then MaxSteps passes of one id each.
C14_BudgetCountsDecodeSteps ==
    \A c \in Callers :
        ReturnedOk(c) /\ ~frame[c].stopped => frame[c].fwd - 1 = MaxSteps

\* C14, amended: the budget counts the iterations of the loop, the first
\* pass included.  No call makes more than MaxSteps passes or samples more
\* than MaxSteps ids, and a call whose loop ends without a stop token has
\* made the first pass and then MaxSteps - 1 passes of one id each, and has
\* sampled MaxSteps ids.
C14_BudgetCountsIterations ==
    \A c \in Callers :
        /\ frame[c].fwd <= MaxSteps
        /\ frame[c].smp <= MaxSteps
        /\ (frame[c].pc \in {"flush", "clear"} \/ ReturnedOk(c)) /\ ~frame[c].stopped =>
              /\ frame[c].fwd - 1 = MaxSteps - 1
              /\ frame[c].smp = MaxSteps
              /\ frame[c].fed = MaxSteps

\* a call returned Ok after MaxSteps passes, none of which led to a stop
\* token
C14_Witness ==
    \E c \in Callers :
        /\ ReturnedOk(c)
        /\ ~frame[c].stopped
        /\ frame[c].fwd = MaxSteps
        /\ frame[c].flushed
        /\ kv = <<>>

\* C15: the call after a call that returned a forward-pass error begins
\* with the cache as that call left it (entering generate changes no
\* position of it), makes its first pass at offset 0, and after that pass
\* the cache holds what was left followed by the prompt at positions 0 on.
C15_NoResetAtCallStart ==
    /\ [](\A c \in Callers :
            frame[c].r0 = Err("ModelForwardError") =>
                /\ (frame[c].pc \in {"compose", "resolve"}
                        \/ (frame[c].pc = "forward" /\ frame[c].fwd = 0)) => kv = frame[c].kv0
                /\ frame[c].pc = "forward" /\ frame[c].fwd = 0 => StartPos(c) = 0
                /\ frame[c].pc = "sample" /\ frame[c].fwd = 1 =>
                      kv = frame[c].kv0 \o
                           [i \in 1..frame[c].n_prompt |->
                                [tok |-> frame[c].tokens[i], pos |-> i - 1, by |-> c]])
    /\ [][\A c \in Callers :
            ReturnedErr(c, "ModelForwardError") /\ InFlight(c)' =>
                /\ Len(kv') = Len(kv)
                /\ \A i \in 1..Len(kv) : kv'[i].tok = kv[i].tok /\ kv'[i].pos = kv[i].pos]_vars

\* the call after a forward-pass error that left positions cached has made
\* its first pass on top of them
C15_Witness ==
    \E c \in Callers :
        /\ frame[c].r0 = Err("ModelForwardError")
        /\ frame[c].kv0 # <<>>
        /\ frame[c].pc = "sample"
        /\ frame[c].fwd = 1
        /\ Len(kv) = Len(frame[c].kv0) + frame[c].n_prompt
        /\ kv[Len(frame[c].kv0) + 1].pos = 0

\* C16: entering generate clears the TokenOutputStream before anything
\* else: the stream is cleared until the loop begins, and from then on it
\* holds ids this call sampled and no others, also when the call before
\* left ids in the stream; the text a call returns is the decode of its own
\* ids.
C16_StreamClearedFirst ==
    /\ [](\A c \in Callers :
            /\ frame[c].pc \in {"compose", "resolve"} => tos = ClearedStream
            /\ InFlight(c) =>
                  /\ Len(tos.tokens) <= Len(Sampled(c))
                  /\ tos.tokens = SubSeq(NonStop(Sampled(c)), 1, Len(tos.tokens))
                  /\ tos.prev_index <= tos.current_index
                  /\ tos.current_index <= Len(tos.tokens)
            /\ ReturnedOk(c) => frame[c].result.text = Decode(tos.tokens)
                                 /\ Len(tos.tokens) = frame[c].fed)
    /\ [][\A c \in Callers : ~InFlight(c) /\ InFlight(c)' => tos' = ClearedStream]_vars

\* a call is about to return text, after a call that had failed in the loop
\* and left ids in the stream
C16_Witness ==
    \E c \in Callers :
        /\ frame[c].r0 = Err("DecodeError")
        /\ frame[c].n_tos0 > 1
        /\ frame[c].pc = "clear"
        /\ frame[c].output # <<>>
        /\ frame[c].output = Decode(tos.tokens)

\* C17: whether a stop token or the budget ended the loop, the call
\* flushes the stream, then clears the cache, then returns: the flush runs
\* with the cache still holding the call's positions; after the flush the
\* only step left clears the cache and returns the output as the flush left
\* it; and a call returns Ok only this way.
C17_FinalizationOrder ==
    /\ [](\A c \in Callers :
            /\ frame[c].pc = "flush" =>
                  /\ ~frame[c].flushed
                  /\ frame[c].stopped \/ frame[c].fed = MaxSteps
                  /\ Len(kv) >= frame[c].n_prompt
            /\ frame[c].pc = "clear" =>
                  /\ frame[c].flushed
                  /\ Len(kv) >= frame[c].n_prompt
            /\ frame[c].flushed => frame[c].pc \in {"clear", "idle"}
            /\ ReturnedOk(c) => frame[c].flushed /\ kv = <<>>)
    /\ [][\A c \in Callers :
            /\ frame[c].pc = "emit" /\ frame'[c].pc \notin {"emit", "forward", "idle"} =>
                  /\ frame'[c].pc = "flush"
                  /\ frame'[c].stopped \/ frame'[c].fed = MaxSteps
                  /\ kv' = kv
            /\ frame[c].pc = "flush" /\ frame'[c].pc = "clear" =>
                  /\ kv' = kv
                  /\ IsPrefix(frame[c].output, frame'[c].output)
            /\ frame[c].pc = "clear" /\ frame'[c] # frame[c] =>
                  /\ frame'[c].pc = "idle"
                  /\ frame'[c].result = Ok(frame[c].output)
                  /\ kv # <<>> /\ kv' = <<>>
            /\ frame[c].pc # "clear" /\ frame'[c] # frame[c] => ~ReturnedOk(c)']_vars

\* a call that a stop token ended returned a text whose end only the flush
\* can have appended
C17_Witness ==
    \E c \in Callers :
        /\ ReturnedOk(c)
        /\ frame[c].stopped
        /\ frame[c].flushed
        /\ kv = <<>>
        /\ frame[c].result.text # <<>>
        /\ ~IsAlphanumeric(frame[c].result.text[Len(frame[c].result.text)])

\* the last n elements of s
Trailing(s, n) == SubSeq(s, Len(s) - n + 1, Len(s))

\* C18: at every sampling step the window of the penalty is the trailing
\* min(RepeatLastN, length) ids of the token sequence as it is before the
\* sampled id is pushed, which is the encoded prompt followed by the ids
\* sampled before; at the first step they are ids of the prompt only.
C18_PenaltyWindow ==
    \A c \in Callers :
        frame[c].pc = "emit" =>
            LET n == Len(frame[c].tokens) - 1
                before == SubSeq(frame[c].tokens, 1, n)
                m == IF n < RepeatLastN THEN n ELSE RepeatLastN
            IN  /\ n = frame[c].n_prompt + frame[c].smp - 1
                /\ Len(frame[c].window) = m
                /\ frame[c].window = Trailing(before, m)
                /\ frame[c].smp = 1 => frame[c].window = Trailing(SubSeq(frame[c].tokens, 1, frame[c].n_prompt), m)
                /\ frame[c].penalized = ApplyRepeatPenalty(frame[c].logits, Trailing(before, m))

\* a sampling step whose sequence is longer than the window: the id right
\* before the window is an id the window does not hold, so the penalty that
\* id had at the step before is gone
C18_Witness ==
    \E c \in Callers :
        /\ frame[c].pc = "emit"
        /\ Len(frame[c].tokens) - 1 > RepeatLastN
        /\ Len(frame[c].window) = RepeatLastN
        /\ frame[c].window[1] # frame[c].tokens[1]
        /\ frame[c].tokens[Len(frame[c].tokens) - 1 - RepeatLastN] \notin Range(frame[c].window)

\* the call of c returned the error of its first pass
FailedInFirstPass(c) == ReturnedErr(c, "ModelForwardError") /\ frame[c].fwd = 1

\* C19: when a call that found the cache empty returns, the cache is empty
\* if and only if the call returned Ok or failed before it began a pass
\* (in the template, the encoding or the stop-token lookup); a call that
\* failed after its first pass had run (in a later pass, in the sampling,
\* in the incremental decode, in the flush after the loop) returns with the
\* prompt still cached.  A call that failed in its first pass returns with
\* nothing cached or with the prompt cached.
C19_CacheEmptyIffCleanExit ==
    \A c \in Callers :
        HasReturned(c) /\ frame[c].kv0 = <<>> =>
            /\ ~FailedInFirstPass(c) =>
                  (kv = <<>> <=> (frame[c].result.kind = "Ok" \/ frame[c].fwd = 0))
            /\ frame[c].result.kind = "Err" /\ frame[c].fwd = 0 =>
                  frame[c].result.err \in {"TemplateError", "EncodeError",
                                           "cannot find the <|endoftext|> token",
                                           "cannot find the <|im_end|> token"}
            /\ frame[c].result.kind = "Err" /\ frame[c].fwd >= 1 /\ ~FailedInFirstPass(c) =>
                  /\ Len(kv) >= frame[c].n_prompt
                  /\ frame[c].n_prompt > 0
                  /\ frame[c].result.err \in {"ModelForwardError", "SampleError", "DecodeError"}
            /\ FailedInFirstPass(c) => kv = <<>> \/ Len(kv) = frame[c].n_prompt

\* the flush failed after a stop token had ended the loop of a call that
\* found the cache empty, and the call returned with its positions cached
C19_Witness ==
    \E c \in Callers :
        /\ ReturnedErr(c, "DecodeError")
        /\ frame[c].kv0 = <<>>
        /\ frame[c].stopped
        /\ ~frame[c].flushed
        /\ Len(kv) = frame[c].n_prompt + frame[c].smp - 1

\* C20: during a call the token sequence only grows, by one id per
\* iteration, the stop token included; every iteration makes one pass and
\* then samples once; and when the loop has ended the call has sampled
\* between 1 and MaxSteps ids and the cache holds (sequence length - 1)
\* positions, the id sampled last not being among them.
C20_OneIdPerIteration ==
    /\ [](\A c \in Callers :
            frame[c].pc \in {"forward", "sample", "emit", "flush", "clear"} =>
                /\ Len(frame[c].tokens) = frame[c].n_prompt + frame[c].smp
                /\ frame[c].fwd = frame[c].smp + (IF frame[c].pc = "sample" THEN 1 ELSE 0)
                /\ frame[c].pc \in {"flush", "clear"} =>
                      /\ frame[c].smp \in 1..MaxSteps
                      /\ Len(kv) = Len(frame[c].tokens) - 1)
    /\ [][\A c \in Callers :
            frame[c].pc \in {"forward", "sample", "emit", "flush"} /\ InFlight(c)' =>
                /\ IsPrefix(frame[c].tokens, frame'[c].tokens)
                /\ Len(frame'[c].tokens) =
                        Len(frame[c].tokens) + (IF frame[c].pc = "sample" THEN 1 ELSE 0)]_vars

====
